---- MODULE Spec2Model ----
(***************************************************************************)
(* transcribe.py: load a Whisper model, transcribe one audio file, reshape *)
(* the returned segments and words, and print one JSON line.               *)
(*                                                                         *)
(* Representation.                                                         *)
(*   - A Python str that the script strips is a sequence of one-character  *)
(*     strings over Chars; " " stands for any whitespace character.        *)
(*   - A raw timestamp returned by the model is an integer number of       *)
(*     1/128 s, so that every raw value is an exact binary float and       *)
(*     round(x, 2) is decided by the exact value (ties to even).  A        *)
(*     rounded timestamp is an integer number of 1/100 s.                  *)
(*   - A dict is a record; a missing key is a missing field.               *)
(*   - stdout is the sequence of printed lines; a line is the JSON value   *)
(*     that json.dumps rendered together with its ensure_ascii flag.       *)
(***************************************************************************)
EXTENDS Integers, Sequences, FiniteSets, TLC

VARIABLES
    argv,             \* sys.argv, argv[1] is the script name
    pc,               \* position of the single thread of control
    audio_file,       \* line 39
    model,            \* line 40
    loaded,           \* name of the local `model` of transcribe(), line 9
    result,           \* line 10
    subtitles,        \* line 12
    words,            \* line 13
    stdout,           \* lines printed so far
    exitStatus,       \* -1 while the process runs, else its exit status
    raised,           \* the call whose exception went uncaught, or "none"
    loadCalls,        \* arguments of every whisper.load_model call
    transcribeCalls   \* arguments of every model.transcribe call

vars == <<argv, pc, audio_file, model, loaded, result, subtitles, words,
          stdout, exitStatus, raised, loadCalls, transcribeCalls>>

-----------------------------------------------------------------------------
(* Bounds of the explored inputs *)

MaxSegs == 2       \* segments in a model result
MaxWords == 2      \* words in a segment
MaxTime == 2       \* first raw timestamp of a result, in 1/128 s
MaxStep == 2       \* distance between consecutive raw timestamps, in 1/128 s
MaxGlitch == 2     \* size of one out-of-line raw timestamp, in 1/128 s
MaxStrLen == 2     \* characters in a raw text
MaxExtraArgs == 1  \* command-line arguments after the model name

-----------------------------------------------------------------------------
(* Python values *)

\* a dict variable not assigned yet
None == [None |-> TRUE]

\* a str variable not assigned yet
Unset == "<unset>"

Chars == {" ", "a"}

IsSpace(c) == c = " "

Strs == UNION {[1..n -> Chars] : n \in 0..MaxStrLen}

RECURSIVE LStrip(_)
LStrip(s) == IF s # <<>> /\ IsSpace(Head(s)) THEN LStrip(Tail(s)) ELSE s

RECURSIVE RStrip(_)
RStrip(s) ==
    IF s # <<>> /\ IsSpace(s[Len(s)]) THEN RStrip(SubSeq(s, 1, Len(s) - 1)) ELSE s

\* str.strip() with no argument: leading and trailing whitespace removed
Strip(s) == RStrip(LStrip(s))

\* round(x, 2) for x = k/128: the nearest multiple of 1/100, ties to even.
\* 100 * k/128 = 25k/32.
Round2Floor(k) == (25 * k) \div 32
Round2(k) ==
    LET n == 25 * k
        q == n \div 32
        r == n % 32
    IN  IF r < 16 THEN q
        ELSE IF r > 16 THEN q + 1
        ELSE IF q % 2 = 0 THEN q ELSE q + 1

\* dict.get(key, default)
Get(d, key, default) == IF key \in DOMAIN d THEN d[key] ELSE default

Drop(d, key) == [k \in DOMAIN d \ {key} |-> d[k]]

-----------------------------------------------------------------------------
(* The environment: command lines, and what whisper returns for a file *)

Script == "transcribe.py"
DEFAULT_MODEL == "base"
ModelNames == {"base", "small"}
AudioFiles == {"clip.wav", "timing.wav", "speech.wav", "missing.wav"}

ExtraArgs == UNION {[1..n -> {"extra"}] : n \in 0..MaxExtraArgs}

Argvs ==
    {<<Script>>}
    \cup {<<Script, a>> : a \in AudioFiles}
    \cup {<<Script, "clip.wav", m>> \o x : m \in ModelNames, x \in ExtraArgs}

\* Word counts of the segments of a result
Shapes == UNION {[1..n -> 0..MaxWords] : n \in 0..MaxSegs}

\* Raw timestamps are handed out in document order: segment start, each
\* word's start and end, segment end.  Point k is t0 + d*k, and point g is
\* moved by e.
At(tl, k) == tl.t0 + tl.d * k + (IF k = tl.g THEN tl.e ELSE 0)

RECURSIVE Before(_, _)
Before(shape, i) ==
    IF i = 1 THEN 0 ELSE Before(shape, i - 1) + 2 + 2 * shape[i - 1]

NPoints(shape) == Before(shape, Len(shape) + 1)

MkSeg(shape, tl, s, w, omitEmpty, i) ==
    LET n == shape[i]
        b == Before(shape, i)
        core == [start |-> At(tl, b + 1), end |-> At(tl, b + 2 * n + 2), text |-> s]
        ws == [j \in 1..n |->
                 [word |-> w, start |-> At(tl, b + 2 * j), end |-> At(tl, b + 2 * j + 1)]]
    IN  IF n = 0 /\ omitEmpty THEN core ELSE core @@ [words |-> ws]

RECURSIVE Concat(_)
Concat(ss) == IF ss = <<>> THEN <<>> ELSE Head(ss) \o Concat(Tail(ss))

MkSegments(shape, tl, s, w, omitEmpty) ==
    [i \in 1..Len(shape) |-> MkSeg(shape, tl, s, w, omitEmpty, i)]

MkResult(shape, tl, s, w, omitEmpty) ==
    LET segs == MkSegments(shape, tl, s, w, omitEmpty)
    IN  [text |-> Concat([i \in 1..Len(segs) |-> s]), segments |-> segs,
         language |-> "ja"]

Steady == [t0 |-> 1, d |-> 1, g |-> 0, e |-> 0]

Timelines(shape) ==
    {[t0 |-> t, d |-> d, g |-> 0, e |-> 0] : t \in 0..MaxTime, d \in 0..MaxStep}
    \cup {[t0 |-> t, d |-> d, g |-> g, e |-> e] :
            t \in 0..MaxTime, d \in 0..MaxStep, g \in 1..NPoints(shape),
            e \in (-MaxGlitch..MaxGlitch) \ {0}}

\* Results whose timestamps vary
IsTimingResult(r) ==
    \E shape \in Shapes : \E tl \in Timelines(shape) :
        r = MkResult(shape, tl, <<" ", "a">>, <<"a", " ">>, FALSE)

\* Results whose texts vary
IsSpeechResult(r) ==
    \E shape \in Shapes, s \in Strs, w \in Strs, o \in BOOLEAN :
        r = MkResult(shape, Steady, s, w, o)

\* Results whose top-level keys vary: "text" and "segments" present or not
IsPlainResult(r) ==
    \E shape \in Shapes, o \in BOOLEAN :
        LET full == MkResult(shape, Steady, <<"a", " ">>, <<" ", "a">>, o)
        IN  \/ \E t \in Strs : r = [full EXCEPT !.text = t]
            \/ r = Drop(full, "text")
            \/ \E t \in Strs : r = [text |-> t, language |-> "ja"]
            \/ r = [language |-> "ja"]

\* Results with one record lacking one of the keys the script reads
IsBrokenResult(r) ==
    \E shape \in Shapes :
        LET full == MkResult(shape, Steady, <<"a">>, <<"a">>, FALSE)
        IN  \E i \in DOMAIN full.segments :
              \/ \E k \in {"start", "end", "text"} :
                    r = [full EXCEPT !.segments[i] = Drop(@, k)]
              \/ \E j \in DOMAIN full.segments[i].words :
                    \E k \in {"word", "start", "end"} :
                       r = [full EXCEPT !.segments[i].words[j] = Drop(@, k)]

\* What model.transcribe may return for the file at `path`
Returns(path, r) ==
    \/ path = "clip.wav" /\ (IsPlainResult(r) \/ IsBrokenResult(r))
    \/ path = "timing.wav" /\ IsTimingResult(r)
    \/ path = "speech.wav" /\ IsSpeechResult(r)

-----------------------------------------------------------------------------
(* transcribe(), lines 12-32, as pure functions of the model result *)

SubtitleSwapped(seg) ==
    [start |-> Round2(seg.end), end |-> Round2(seg.start), text |-> Strip(seg.text)]

Subtitle(seg) ==
    [start |-> Round2(seg.start), end |-> Round2(seg.end), text |-> Strip(seg.text)]

WordEntry(word) ==
    [word |-> Strip(word.word), start |-> Round2(word.start), end |-> Round2(word.end)]

\* the inner loop, lines 20-25
RECURSIVE LoopWords(_, _)
LoopWords(ws, acc) ==
    IF ws = <<>> THEN acc
    ELSE LoopWords(Tail(ws), Append(acc, WordEntry(Head(ws))))

\* the outer loop, lines 14-25
RECURSIVE LoopSegmentsPrepend(_, _, _)
LoopSegmentsPrepend(segs, subs, wrds) ==
    IF segs = <<>> THEN [subtitles |-> subs, words |-> wrds]
    ELSE LET seg == Head(segs)
         IN  LoopSegmentsPrepend(Tail(segs),
                                 <<Subtitle(seg)>> \o subs,
                                 LoopWords(Get(seg, "words", <<>>), <<>>) \o wrds)

RECURSIVE LoopSegmentsFirstWord(_, _, _)
LoopSegmentsFirstWord(segs, subs, wrds) ==
    IF segs = <<>> THEN [subtitles |-> subs, words |-> wrds]
    ELSE LET seg == Head(segs)
             ws == Get(seg, "words", <<>>)
         IN  LoopSegmentsFirstWord(Tail(segs),
                                   Append(subs, Subtitle(seg)),
                                   LoopWords(IF ws = <<>> THEN <<>> ELSE <<Head(ws)>>, wrds))

RECURSIVE LoopSegments(_, _, _)
LoopSegments(segs, subs, wrds) ==
    IF segs = <<>> THEN [subtitles |-> subs, words |-> wrds]
    ELSE LET seg == Head(segs)
         IN  LoopSegments(Tail(segs),
                          Append(subs, Subtitle(seg)),
                          LoopWords(Get(seg, "words", <<>>), wrds))

\* seg["start"], seg["end"], seg["text"], word["word"], word["start"],
\* word["end"] raise KeyError on a record without the key
SegmentReadable(seg) ==
    /\ {"start", "end", "text"} \subseteq DOMAIN seg
    /\ \A j \in DOMAIN Get(seg, "words", <<>>) :
          {"word", "start", "end"} \subseteq DOMAIN seg.words[j]

RaisesKeyError(r) ==
    \E i \in DOMAIN Get(r, "segments", <<>>) : ~SegmentReadable(r.segments[i])

\* lines 27-31
OutputOmitEmptyWords(r, subs, wrds) ==
    IF wrds = <<>>
    THEN [text |-> Get(r, "text", <<>>), subtitles |-> subs]
    ELSE [text |-> Get(r, "text", <<>>), subtitles |-> subs, words |-> wrds]

OutputStripText(r, subs, wrds) ==
    [text |-> Strip(Get(r, "text", <<>>)), subtitles |-> subs, words |-> wrds]

Output(r, subs, wrds) ==
    [text |-> Get(r, "text", <<>>), subtitles |-> subs, words |-> wrds]

\* print(json.dumps(value, ensure_ascii=flag)): one line
Line(value, flag) == [json |-> value, ensure_ascii |-> flag]

\* stands for the Japanese literal of line 36 ("specify the path of the audio file")
UsageMessage == "audio file path required"

-----------------------------------------------------------------------------
(* The process *)

Init ==
    /\ argv \in Argvs
    /\ pc = "main"
    /\ audio_file = Unset
    /\ model = Unset
    /\ loaded = Unset
    /\ result = None
    /\ subtitles = <<>>
    /\ words = <<>>
    /\ stdout = <<>>
    /\ exitStatus = -1
    /\ raised = "none"
    /\ loadCalls = <<>>
    /\ transcribeCalls = <<>>

\* lines 35-36: no audio path given
UsageError ==
    /\ pc = "main"
    /\ Len(argv) < 2
    /\ stdout' = Append(stdout, Line([error |-> UsageMessage], TRUE))
    /\ pc' = "exit"
    /\ UNCHANGED <<argv, audio_file, model, loaded, result, subtitles, words,
                   exitStatus, raised, loadCalls, transcribeCalls>>

\* line 37
SysExitZero ==
    /\ pc = "exit"
    /\ exitStatus' = 0
    /\ pc' = "done"
    /\ UNCHANGED <<argv, audio_file, model, loaded, result, subtitles, words,
                   stdout, raised, loadCalls, transcribeCalls>>

SysExit ==
    /\ pc = "exit"
    /\ exitStatus' = 1
    /\ pc' = "done"
    /\ UNCHANGED <<argv, audio_file, model, loaded, result, subtitles, words,
                   stdout, raised, loadCalls, transcribeCalls>>

\* lines 39-41
ParseArgsLastIsModel ==
    /\ pc = "main"
    /\ Len(argv) >= 2
    /\ audio_file' = argv[2]
    /\ model' = IF Len(argv) > 2 THEN argv[Len(argv)] ELSE DEFAULT_MODEL
    /\ pc' = "load"
    /\ UNCHANGED <<argv, loaded, result, subtitles, words, stdout, exitStatus,
                   raised, loadCalls, transcribeCalls>>

ParseArgs ==
    /\ pc = "main"
    /\ Len(argv) >= 2
    /\ audio_file' = argv[2]
    /\ model' = IF Len(argv) > 2 THEN argv[3] ELSE DEFAULT_MODEL
    /\ pc' = "load"
    /\ UNCHANGED <<argv, loaded, result, subtitles, words, stdout, exitStatus,
                   raised, loadCalls, transcribeCalls>>

\* An uncaught exception: traceback on stderr, exit status 1
Uncaught(call) ==
    /\ raised' = call
    /\ exitStatus' = 1
    /\ pc' = "done"

\* line 9, the call returns
LoadModelReturns ==
    /\ pc = "load"
    /\ loadCalls' = Append(loadCalls, model)
    /\ loaded' = model
    /\ pc' = "transcribe"
    /\ UNCHANGED <<argv, audio_file, model, result, subtitles, words, stdout,
                   exitStatus, raised, transcribeCalls>>

\* line 9, the call raises (unknown name, corrupted weights, no memory)
LoadModelRaises ==
    /\ pc = "load"
    /\ loadCalls' = Append(loadCalls, model)
    /\ Uncaught("load_model")
    /\ UNCHANGED <<argv, audio_file, model, loaded, result, subtitles, words,
                   stdout, transcribeCalls>>

TranscribeRequest ==
    [audio |-> audio_file, language |-> "ja", verbose |-> FALSE,
     word_timestamps |-> TRUE]

\* line 10, the call returns
TranscribeReturns ==
    /\ pc = "transcribe"
    /\ transcribeCalls' = Append(transcribeCalls, TranscribeRequest)
    /\ Returns(audio_file, result')
    /\ pc' = "reshape"
    /\ UNCHANGED <<argv, audio_file, model, loaded, subtitles, words, stdout,
                   exitStatus, raised, loadCalls>>

\* line 10, the call raises (missing file, unsupported codec, no memory)
TranscribeRaisesEnvelope ==
    /\ pc = "transcribe"
    /\ transcribeCalls' = Append(transcribeCalls, TranscribeRequest)
    /\ stdout' = Append(stdout, Line([error |-> "transcription failed"], TRUE))
    /\ Uncaught("transcribe")
    /\ UNCHANGED <<argv, audio_file, model, loaded, result, subtitles, words,
                   loadCalls>>

TranscribeRaisesRetry ==
    /\ pc = "transcribe"
    /\ transcribeCalls' = Append(transcribeCalls, TranscribeRequest)
    /\ IF Len(transcribeCalls) = 0
       THEN UNCHANGED <<pc, raised, exitStatus>>
       ELSE Uncaught("transcribe")
    /\ UNCHANGED <<argv, audio_file, model, loaded, result, subtitles, words,
                   stdout, loadCalls>>

TranscribeRaises ==
    /\ pc = "transcribe"
    /\ transcribeCalls' = Append(transcribeCalls, TranscribeRequest)
    /\ Uncaught("transcribe")
    /\ UNCHANGED <<argv, audio_file, model, loaded, result, subtitles, words,
                   stdout, loadCalls>>

\* lines 12-25, every record readable
Reshape ==
    /\ pc = "reshape"
    /\ ~RaisesKeyError(result)
    /\ LET out == LoopSegments(Get(result, "segments", <<>>), <<>>, <<>>)
       IN  /\ subtitles' = out.subtitles
           /\ words' = out.words
    /\ pc' = "print"
    /\ UNCHANGED <<argv, audio_file, model, loaded, result, stdout, exitStatus,
                   raised, loadCalls, transcribeCalls>>

\* lines 12-25, a record lacks a key: KeyError.  The lists built so far die
\* with the frame of transcribe(); nothing reads them.
ReshapeRaises ==
    /\ pc = "reshape"
    /\ RaisesKeyError(result)
    /\ Uncaught("reshape")
    /\ UNCHANGED <<argv, audio_file, model, loaded, result, subtitles, words,
                   stdout, loadCalls, transcribeCalls>>

\* lines 27-32 and the end of the script
PrintOutput ==
    /\ pc = "print"
    /\ stdout' = Append(stdout, Line(Output(result, subtitles, words), FALSE))
    /\ exitStatus' = 0
    /\ pc' = "done"
    /\ UNCHANGED <<argv, audio_file, model, loaded, result, subtitles, words,
                   raised, loadCalls, transcribeCalls>>

Next ==
    \/ UsageError
    \/ SysExit
    \/ ParseArgs
    \/ LoadModelReturns
    \/ LoadModelRaises
    \/ TranscribeReturns
    \/ TranscribeRaises
    \/ Reshape
    \/ ReshapeRaises
    \/ PrintOutput

Spec == Init /\ [][Next]_vars

\* Runs on clip.wav and missing.wav only
InitFlow == Init /\ (Len(argv) >= 2 => argv[2] \in {"clip.wav", "missing.wav"})

\* The interpreter runs the single thread until the process exits
FairSpec == InitFlow /\ [][Next]_vars /\ WF_vars(Next)

-----------------------------------------------------------------------------
(* Vocabulary of the properties *)

Done == pc = "done"

\* The run ended with exit status 0
Succeeded == Done /\ exitStatus = 0

\* The JSON value of the only printed line
Printed == stdout[1].json

ResultKeys == {"text", "subtitles", "words"}

Segments == Get(result, "segments", <<>>)

\* r is a multiple of 1/100 s nearest to the raw value k/128 s
NearestHundredth(k, r) == 25 * k - 32 * r \in -16..16

IsBlank(s) == \A i \in DOMAIN s : IsSpace(s[i])

\* t is s without its leading and trailing whitespace
IsStripOf(t, s) ==
    /\ t = <<>> \/ (~IsSpace(t[1]) /\ ~IsSpace(t[Len(t)]))
    /\ \E a \in 0..Len(s) :
          /\ a + Len(t) <= Len(s)
          /\ t = SubSeq(s, a + 1, a + Len(t))
          /\ IsBlank(SubSeq(s, 1, a))
          /\ IsBlank(SubSeq(s, a + Len(t) + 1, Len(s)))

\* Non-negative, start <= end, sorted by start
WellTimed(xs) ==
    /\ \A i \in DOMAIN xs : xs[i].start >= 0 /\ xs[i].start <= xs[i].end
    /\ \A i, j \in DOMAIN xs : i < j => xs[i].start <= xs[j].start

\* The raw words of the whole result in document order, each with the index
\* of its segment
RECURSIVE RawWordsFrom(_)
RawWordsFrom(i) ==
    IF i > Len(Segments) THEN <<>>
    ELSE LET ws == Get(Segments[i], "words", <<>>)
         IN  [j \in DOMAIN ws |-> [seg |-> i, raw |-> ws[j]]] \o RawWordsFrom(i + 1)

RawWords == RawWordsFrom(1)

\* Intervals non-decreasing in sequence order
IntervalsOrdered(xs) ==
    \A i, j \in DOMAIN xs :
        i < j => xs[i].start <= xs[j].start /\ xs[i].end <= xs[j].end

-----------------------------------------------------------------------------
(* Properties *)

\* C1: a run without an audio path prints exactly one JSON object whose only
\* key is "error", prints nothing else, and exits with status 1.
C1_UsageError ==
    Len(argv) < 2 =>
        /\ Len(stdout) <= 1
        /\ \A i \in DOMAIN stdout : DOMAIN stdout[i].json = {"error"}
        /\ Done => Len(stdout) = 1 /\ exitStatus = 1

C1_Witness == Len(argv) < 2 /\ Done /\ Len(stdout) = 1

\* C2: a successful run prints exactly one line, an object with exactly the
\* keys text, subtitles and words; words is there even when it is empty, and
\* there is no error key.
C2_SuccessShape ==
    Succeeded =>
        /\ Len(stdout) = 1
        /\ DOMAIN Printed = ResultKeys
        /\ "error" \notin DOMAIN Printed

C2_Witness == Succeeded /\ Len(stdout) = 1 /\ words = <<>> /\ Segments # <<>>

\* C3: a failure of the load, of the transcription or of reading a record is
\* not caught: nothing is printed, nothing is retried, the exit status is
\* non-zero.
C3_UncaughtFailure ==
    raised # "none" =>
        /\ Done
        /\ stdout = <<>>
        /\ exitStatus > 0
        /\ Len(loadCalls) <= 1
        /\ Len(transcribeCalls) <= 1

C3_Witness == raised = "reshape" /\ Done /\ Len(Segments) > 1

\* C4: the model is loaded under argv's second argument, or "base" without
\* one; the audio path is the first argument; later arguments are ignored;
\* the request is always language ja, verbose off, word timestamps on.
C4_Arguments ==
    /\ \A i \in DOMAIN loadCalls :
          loadCalls[i] = IF Len(argv) >= 3 THEN argv[3] ELSE "base"
    /\ \A i \in DOMAIN transcribeCalls :
          transcribeCalls[i] = [audio |-> argv[2], language |-> "ja",
                                verbose |-> FALSE, word_timestamps |-> TRUE]

C4_Witness ==
    Len(argv) > 3 /\ argv[3] = "small" /\ loadCalls # <<>> /\ transcribeCalls # <<>>

\* C5 as claimed: in every successful run the subtitles are non-negative,
\* start <= end, and sorted by start.
C5_AnySuccessfulRun == Succeeded => WellTimed(Printed.subtitles)

\* C5 amended: in a successful run whose model segments are non-negative,
\* start <= end and sorted by start, so are the subtitles.
C5_WellTimedPreserved ==
    (Succeeded /\ WellTimed(Segments)) => WellTimed(Printed.subtitles)

\* two raw starts that differ and round to the same hundredth
C5_Witness ==
    /\ Succeeded
    /\ WellTimed(Segments)
    /\ Len(Segments) = 2
    /\ Segments[1].start < Segments[2].start
    /\ Segments[1].start < Segments[1].end
    /\ Printed.subtitles[1].start = Printed.subtitles[2].start

WordsWithin(ws, subs, tolerance) ==
    \A k \in DOMAIN ws :
        k \in DOMAIN RawWords =>
            LET sub == subs[RawWords[k].seg]
            IN  /\ ws[k].start >= sub.start - tolerance
                /\ ws[k].end <= sub.end + tolerance

RawWordsWithin ==
    \A k \in DOMAIN RawWords :
        LET seg == Segments[RawWords[k].seg]
            w == RawWords[k].raw
        IN  w.start >= seg.start /\ w.end <= seg.end

WordsTimed ==
    /\ Len(Printed.words) = Len(RawWords)
    /\ IntervalsOrdered(Printed.words)
    /\ WordsWithin(Printed.words, Printed.subtitles, 1)

\* C6 as claimed: in every successful run the words' intervals are
\* non-decreasing in document order and each lies inside its segment's
\* subtitle interval, within 0.01.
C6_AnySuccessfulRun == Succeeded => WordsTimed

\* C6 amended: the same, in a successful run whose model words are
\* non-decreasing in document order and lie inside their model segments.
C6_WordTimingPreserved ==
    (Succeeded /\ IntervalsOrdered([k \in DOMAIN RawWords |-> RawWords[k].raw])
               /\ RawWordsWithin)
        => WordsTimed

\* words in two segments, and two words in one segment
C6_Witness ==
    /\ Succeeded
    /\ IntervalsOrdered([k \in DOMAIN RawWords |-> RawWords[k].raw])
    /\ RawWordsWithin
    /\ Len(RawWords) = 3
    /\ RawWords[1].seg # RawWords[3].seg
    /\ RawWords[1].raw.start < RawWords[3].raw.start

NoSpeechOutput ==
    /\ Printed.subtitles = <<>>
    /\ Printed.words = <<>>
    /\ Printed.text = Get(result, "text", <<>>)

\* C7 as claimed: without segments, subtitles and words are empty and text
\* is empty or whitespace only.
C7_BlankText ==
    (Succeeded /\ Segments = <<>>) => NoSpeechOutput /\ IsBlank(Printed.text)

\* C7 amended: without segments, subtitles and words are empty and text is
\* the model's text unchanged, "" without one; it is empty or whitespace
\* only exactly when the model's text is.
C7_NoSpeech ==
    (Succeeded /\ Segments = <<>>) => NoSpeechOutput

C7_Witness ==
    /\ Succeeded
    /\ "segments" \notin DOMAIN result
    /\ "text" \in DOMAIN result
    /\ result.text = <<" ">>
    /\ Len(stdout) = 1

\* C8: subtitles has one entry per model segment, in the model's order;
\* entry i has segment i's start and end rounded to 2 decimals and its text
\* without surrounding whitespace.
C8_Subtitles ==
    Succeeded =>
        /\ Len(Printed.subtitles) = Len(Segments)
        /\ \A i \in DOMAIN Segments :
              i \in DOMAIN Printed.subtitles =>
                  /\ DOMAIN Printed.subtitles[i] = {"start", "end", "text"}
                  /\ NearestHundredth(Segments[i].start, Printed.subtitles[i].start)
                  /\ NearestHundredth(Segments[i].end, Printed.subtitles[i].end)
                  /\ IsStripOf(Printed.subtitles[i].text, Segments[i].text)

C8_Witness ==
    /\ Succeeded
    /\ Len(Segments) = 2
    /\ Segments[1].start # Segments[2].start
    /\ Segments[1].text # Printed.subtitles[1].text
    /\ 25 * Segments[2].end # 32 * Printed.subtitles[2].end

\* C9: words is the concatenation of the segments' word lists in segment
\* order and then in order inside the segment; a segment without a word
\* list adds nothing; each entry has the word's text without surrounding
\* whitespace and its start and end rounded to 2 decimals.
C9_Words ==
    Succeeded =>
        /\ Len(Printed.words) = Len(RawWords)
        /\ \A k \in DOMAIN RawWords :
              k \in DOMAIN Printed.words =>
                  /\ DOMAIN Printed.words[k] = {"word", "start", "end"}
                  /\ NearestHundredth(RawWords[k].raw.start, Printed.words[k].start)
                  /\ NearestHundredth(RawWords[k].raw.end, Printed.words[k].end)
                  /\ IsStripOf(Printed.words[k].word, RawWords[k].raw.word)

\* a segment without a word list between two segments with words
C9_Witness ==
    /\ Succeeded
    /\ Len(Segments) = 2
    /\ "words" \notin DOMAIN Segments[1]
    /\ Len(Get(Segments[2], "words", <<>>)) = 2
    /\ Len(Printed.words) = 2
    /\ Printed.words[1].word # Segments[2].words[1].word

Rank(p) ==
    CASE p = "main" -> 0
      [] p = "exit" -> 1
      [] p = "load" -> 1
      [] p = "transcribe" -> 2
      [] p = "reshape" -> 3
      [] p = "print" -> 4
      [] p = "done" -> 5

UsageOutcome ==
    exitStatus = 1 /\ raised = "none" /\ Len(stdout) = 1 /\ DOMAIN Printed = {"error"}

SuccessOutcome ==
    exitStatus = 0 /\ raised = "none" /\ Len(stdout) = 1 /\ DOMAIN Printed = ResultKeys

FailureOutcome == exitStatus = 1 /\ raised # "none" /\ stdout = <<>>

StraightLine ==
    /\ Len(loadCalls) <= 1
    /\ Len(transcribeCalls) <= 1
    /\ transcribeCalls # <<>> => loaded # Unset /\ Len(loadCalls) = 1
    /\ (\E i \in DOMAIN stdout : "text" \in DOMAIN stdout[i].json) =>
          /\ Len(transcribeCalls) = 1
          /\ result # None
          /\ Len(subtitles) = Len(Segments)
    /\ Len(argv) < 2 => loadCalls = <<>> /\ transcribeCalls = <<>>
    /\ Done =>
          Cardinality({o \in {"usage", "success", "failure"} :
                          \/ o = "usage" /\ UsageOutcome
                          \/ o = "success" /\ SuccessOutcome
                          \/ o = "failure" /\ FailureOutcome}) = 1

\* C10: a run is one straight line: at most one load, at most one
\* transcription and only after the load returned, the result line only
\* after transcription and reshaping, neither call in a run without an
\* audio path; every step moves forward, and every run ends in exactly one
\* of usage error, success, uncaught failure.
C10_StraightLine ==
    /\ []StraightLine
    /\ [][Rank(pc') > Rank(pc)]_vars
    /\ <>Done

C10_Witness ==
    Succeeded /\ Len(loadCalls) = 1 /\ Len(transcribeCalls) = 1 /\ Len(subtitles) = 2

====
